---- MODULE Spec2Model ----
(***************************************************************************)
(* Model of the fashion-store data injection workflow.                     *)
(*                                                                         *)
(* Two implementations of the same workflow are modelled side by side:     *)
(*   "cli" : class DataInjection of src/main.py (start_workflow)           *)
(*   "dag" : the task chain fashion_store_etl of                           *)
(*           src/dags/test_artefact/main.py                                *)
(* Two runs (Runs) execute against one PostgreSQL store and one CSV        *)
(* object; their steps interleave freely, so that sequential re-runs and   *)
(* concurrent runs are both behaviours of the model.                       *)
(*                                                                         *)
(* The relational store follows PostgreSQL: a run's inserts are private    *)
(* to its transaction until COMMIT; a statement that fails on the server   *)
(* puts the transaction in the failed state, in which every later          *)
(* statement fails (InFailedSqlTransaction) and COMMIT rolls back;         *)
(* INSERT .. ON CONFLICT DO NOTHING waits for a concurrent transaction     *)
(* that holds an uncommitted row with the same key.                        *)
(***************************************************************************)
EXTENDS Integers, Sequences, FiniteSets, TLC

\* Bound: the number of data lines of the CSV object.
MaxRows == 2

\* The two runs of the workflow. Run 2 starts after run 1 has started.
Runs == {1, 2}

\* The implementation a run executes.
Impls == {"cli", "dag"}

Range(s) == {s[n] : n \in DOMAIN s}

(***************************************************************************)
(* Dates. A target date is the string handed to the workflow, a sequence   *)
(* of characters. A character is written as a one-letter string for ASCII  *)
(* and as its code point for the others: FF10..FF19 are the fullwidth      *)
(* digits (Unicode decimal digits), 00B2 is the superscript two (a digit   *)
(* for str.isdigit, not a decimal digit).                                  *)
(***************************************************************************)
AsciiDigits == <<"0", "1", "2", "3", "4", "5", "6", "7", "8", "9">>
FullwidthDigits ==
    <<"FF10", "FF11", "FF12", "FF13", "FF14", "FF15", "FF16", "FF17", "FF18", "FF19">>

IsAsciiDigit(c) == c \in Range(AsciiDigits)
\* What \d matches in a str pattern and int() converts.
IsDecimal(c) == c \in Range(AsciiDigits) \cup Range(FullwidthDigits)
\* str.isdigit of one character.
IsDigit(c) == IsDecimal(c) \/ c = "00B2"

DigitValue(c) ==
    CHOOSE v \in 0..9 : AsciiDigits[v + 1] = c \/ FullwidthDigits[v + 1] = c

RECURSIVE Number(_)
Number(chars) ==
    IF Len(chars) = 0 THEN 0
    ELSE 10 * Number(SubSeq(chars, 1, Len(chars) - 1)) + DigitValue(chars[Len(chars)])

RECURSIVE Decimal(_)
Decimal(n) == IF n < 10 THEN <<AsciiDigits[n + 1]>>
              ELSE Decimal(n \div 10) \o <<AsciiDigits[(n % 10) + 1]>>

TwoDigits(n) == <<AsciiDigits[(n \div 10) + 1], AsciiDigits[(n % 10) + 1]>>

Year(date) == Number(SubSeq(date, 1, 4))
Month(date) == Number(SubSeq(date, 5, 6))
Day(date) == Number(SubSeq(date, 7, 8))

IsLeap(y) == (y % 4 = 0 /\ y % 100 # 0) \/ y % 400 = 0

DaysInMonth(y, m) ==
    IF m = 2 THEN (IF IsLeap(y) THEN 29 ELSE 28)
    ELSE IF m \in {4, 6, 9, 11} THEN 30 ELSE 31

\* datetime.strptime(date, "%Y%m%d") of an 8-character string returns a date:
\* the pattern is \d\d\d\d for %Y, 1[0-2]|0[1-9]|[1-9] for %m and
\* 3[01]|[12]\d|0[1-9]|[1-9] for %d, and all 8 characters must be consumed;
\* then the year must be at least 1 and the day must exist in the month.
StrptimeParses(date) ==
    /\ \A n \in 1..4 : IsDecimal(date[n])
    /\ \/ date[5] = "1" /\ date[6] \in {"0", "1", "2"}
       \/ date[5] = "0" /\ IsAsciiDigit(date[6]) /\ date[6] # "0"
    /\ \/ date[7] = "3" /\ date[8] \in {"0", "1"}
       \/ date[7] \in {"1", "2"} /\ IsDecimal(date[8])
       \/ date[7] = "0" /\ IsAsciiDigit(date[8]) /\ date[8] # "0"
    /\ Year(date) >= 1
    /\ Day(date) <= DaysInMonth(Year(date), Month(date))

AcceptsAnyDigits(date) == Len(date) = 8 /\ \A n \in 1..8 : IsDigit(date[n])
validate_date(date) ==
    /\ Len(date) = 8
    /\ \A n \in 1..8 : IsDigit(date[n])
    /\ StrptimeParses(date)

Date1 == <<"2", "0", "2", "3", "0", "6", "1", "5">>
Date2 == <<"2", "0", "2", "3", "0", "6", "1", "6">>
TargetDates == {Date1, Date2}

\* A date string that validation refuses: the 30th of February.
BadDate == <<"2", "0", "2", "3", "0", "2", "3", "0">>
RunDates == TargetDates \cup {BadDate}

\* strptime(date, "%Y%m%d").strftime("%Y-%m-%d"): the year as the C library
\* prints it (glibc: without leading zeros), month and day on two digits.
FormatDate(date) ==
    Decimal(Year(date)) \o <<"-">> \o TwoDigits(Month(date)) \o <<"-">>
        \o TwoDigits(Day(date))

(***************************************************************************)
(* The CSV object. One line is a SaleRecord; of its 23 columns the model   *)
(* keeps the four keys, the sale date, one attribute value standing for    *)
(* the client columns and one for the product columns.  `fault` says what  *)
(* the line's values do to the insert sequence: at = 0 nothing; otherwise  *)
(* statement number `at` of the line raises                                *)
(*   "db"    a psycopg.Error reported by the server (type, not-null ...),  *)
(*   "adapt" a psycopg.Error raised in the client before anything is sent, *)
(*   "other" an exception that is not a psycopg.Error.                     *)
(***************************************************************************)
NoFault == [at |-> 0, kind |-> "none"]

\* The sale_date column is text: "2023-06-15", "2023-06-16", "0999-06-15".
SaleDate1 == <<"2", "0", "2", "3", "-", "0", "6", "-", "1", "5">>
SaleDate2 == <<"2", "0", "2", "3", "-", "0", "6", "-", "1", "6">>
SaleDateOld == <<"0", "9", "9", "9", "-", "0", "6", "-", "1", "5">>

SaleRecord(c, ca, p, pa, s, d, it, f) ==
    [customer_id |-> c, client |-> ca, product_id |-> p, product |-> pa,
     sale_id |-> s, sale_date |-> d, item_id |-> it, fault |-> f]

Catalog ==
    { SaleRecord(1, "a", 1, "x", 1, SaleDate1, 1, NoFault),
      SaleRecord(1, "b", 2, "y", 2, SaleDate1, 2, NoFault),
      SaleRecord(2, "a", 2, "x", 3, SaleDate2, 3, NoFault),
      SaleRecord(2, "a", 2, "x", 4, SaleDate1, 4, [at |-> 4, kind |-> "db"]),
      SaleRecord(2, "b", 1, "y", 5, SaleDate1, 5, [at |-> 2, kind |-> "adapt"]),
      SaleRecord(1, "a", 1, "x", 6, SaleDate1, 6, [at |-> 3, kind |-> "other"]) }

CsvObjects == UNION {[1..n -> Catalog] : n \in 0..MaxRows}

(***************************************************************************)
(* DataFrame operations. A frame is a sequence of [idx, row]: pandas keeps *)
(* the index label of each line through filtering.                         *)
(***************************************************************************)
ReadCsv(object) == [n \in 1..Len(object) |-> [idx |-> n - 1, row |-> object[n]]]

KeepsAllDates(df, formatted_date) == df
FilterSaleDate(df, formatted_date) ==
    SelectSeq(df, LAMBDA e : e.row.sale_date = formatted_date)

DropDuplicates(df) ==
    SelectSeq(df, LAMBDA e : ~ \E o \in Range(df) : o.idx < e.idx /\ o.row = e.row)

ExtractFrame(object, date) ==
    DropDuplicates(FilterSaleDate(ReadCsv(object), FormatDate(date)))

\* to_json(orient='records') keeps the rows in order and drops the index;
\* read_json numbers the records from 0.
ToJson(df) == [n \in 1..Len(df) |-> df[n].row]
ReadJson(records) == [n \in 1..Len(records) |-> [idx |-> n - 1, row |-> records[n]]]

NoneJson == [none |-> TRUE, records |-> <<>>]
SomeJson(df) == [none |-> FALSE, records |-> ToJson(df)]

(***************************************************************************)
(* The relational store: four tables, each a set of rows.  `by` records    *)
(* which run and which frame line issued the insert that created the row;  *)
(* it is not a column.                                                     *)
(***************************************************************************)
Tables == {"client", "product", "sale", "sale_product"}

EmptyTables == [t \in Tables |-> {}]

KeyOf(t, rec) ==
    CASE t = "client" -> rec.customer_id
      [] t = "product" -> rec.product_id
      [] t = "sale" -> rec.sale_id
      [] t = "sale_product" -> rec.item_id

\* The four INSERT statements of one line, in the order the loader issues them.
SwappedOrder == <<"sale", "sale_product", "client", "product">>
StmtOrder == <<"client", "product", "sale", "sale_product">>

\* The VALUES of the INSERT into table t for a line.
Values(t, row, by) ==
    CASE t = "client" ->
           [customer_id |-> row.customer_id, attr |-> row.client, by |-> by]
      [] t = "product" ->
           [product_id |-> row.product_id, attr |-> row.product, by |-> by]
      [] t = "sale" ->
           [sale_id |-> row.sale_id, sale_date |-> row.sale_date,
            customer_id |-> row.customer_id, by |-> by]
      [] t = "sale_product" ->
           [item_id |-> row.item_id, sale_id |-> row.sale_id,
            product_id |-> row.product_id, by |-> by]

\* The columns of a stored row: the row without its creator tag.
Columns(rec) == [rec EXCEPT !.by = <<0, 0>>]

\* ON CONFLICT (<primary key>): the arbiter compares the key column only.
ConflictsWholeRow(t, old, rec) == Columns(old) = Columns(rec)
Conflicts(t, old, rec) == KeyOf(t, old) = KeyOf(t, rec)

\* INSERT .. ON CONFLICT DO NOTHING against the rows the statement sees:
\* the rows to add to the transaction's pending writes.
InsertBlind(t, visible, rec) == {rec}
InsertOnConflictDoNothing(t, visible, rec) ==
    IF \E old \in visible : Conflicts(t, old, rec) THEN {} ELSE {rec}

\* SELECT EXISTS(SELECT 1 FROM sale WHERE sale_date = %s).
SaleDateNeverExists(sale, formatted_date) == FALSE
SaleDateExists(sale, formatted_date) == \E s \in sale : s.sale_date = formatted_date

VARIABLES
    object,   \* the CSV object in the bucket
    store,    \* the committed contents of the four tables
    run       \* the state of each run

vars == <<object, store, run>>

(***************************************************************************)
(* Per-run state.                                                          *)
(*   pc        where the run stands: idle, validate, check, extract, load  *)
(*             (before the connection of the loader), rows (inside the     *)
(*             for loop), notify (dag only), done                          *)
(*   exists    the value check_date_exists returned                        *)
(*   data_json the XCom value the dag's extract task returned              *)
(*   df, i, k  the frame being loaded, the line and the statement reached  *)
(*   inserted_count  the loader's counter                                  *)
(*   tx        none, open, failed (aborted by a server error), closed      *)
(*   writes    the rows inserted by the open transaction, not committed    *)
(*   term      the terminal state, named after the branch the run took     *)
(*   ret       what the workflow handed back: "True"/"False" for           *)
(*             start_workflow, the result's status for the dag             *)
(*   rows_inserted  the result's rows_inserted (dag), -1 when none         *)
(*   logged    the row count of the final log line, -1 when none           *)
(*   raised    an exception left the workflow                              *)
(*   err       the step whose failure ended the run                        *)
(* and what the run did to its collaborators: existence queries, fetches   *)
(* of the object, INSERT statements sent, loader connections opened,       *)
(* COMMITs sent, and the frame lines that completed their four statements. *)
(* `found` and `left` are used when the two workflows are compared: the    *)
(* tables as the run found them and as it left them.                       *)
(***************************************************************************)
IdleRun ==
    [pc |-> "idle", impl |-> "cli", date |-> Date1, exists |-> FALSE,
     data_json |-> NoneJson, df |-> <<>>, i |-> 1, k |-> 1, inserted_count |-> 0,
     tx |-> "none", writes |-> EmptyTables, term |-> "none", ret |-> "none",
     rows_inserted |-> -1, logged |-> -1, raised |-> FALSE, err |-> "none",
     queries |-> 0, fetches |-> 0, stmts |-> 0, opened |-> 0, commits |-> 0,
     completed |-> {}, found |-> EmptyTables, left |-> EmptyTables]

Init ==
    /\ object \in CsvObjects
    /\ store = EmptyTables
    /\ run = [r \in Runs |-> IdleRun]

Set(r, changes) == run' = [run EXCEPT ![r] = changes]

\* main() / the dag trigger: a run starts with the date it is given.
Start(r) ==
    /\ run[r].pc = "idle"
    /\ \A q \in Runs : q < r => run[q].pc # "idle"
    /\ \E impl \in Impls, date \in RunDates :
         Set(r, [run[r] EXCEPT !.pc = "validate", !.impl = impl, !.date = date])
    /\ UNCHANGED <<object, store>>

\* Step 1. main() logs and returns without calling start_workflow;
\* validate_execution_date raises ValueError and the later tasks do not run.
Rejected(rn) ==
    [rn EXCEPT !.pc = "done", !.term = "rejected", !.raised = (rn.impl = "dag")]

Validate(r) ==
    /\ run[r].pc = "validate"
    /\ IF validate_date(run[r].date)
       THEN Set(r, [run[r] EXCEPT !.pc = "check"])
       ELSE Set(r, Rejected(run[r]))
    /\ UNCHANGED <<object, store>>

Other(r) == Runs \ {r}

(***************************************************************************)
(* How a run ends.                                                         *)
(***************************************************************************)
\* start_workflow: `except DataInjectionError` / `except Exception`, both
\* return False; leaving the `with` block of the connection rolls back.
CliFailPropagates(rn, step) ==
    [rn EXCEPT !.pc = "done", !.term = "failed", !.raised = TRUE, !.err = step,
               !.tx = IF rn.tx = "none" THEN "none" ELSE "closed",
               !.writes = EmptyTables]
CliFail(rn, step) ==
    [rn EXCEPT !.pc = "done", !.term = "failed", !.ret = "False", !.err = step,
               !.tx = IF rn.tx = "none" THEN "none" ELSE "closed",
               !.writes = EmptyTables]

\* A dag task raises DataInjectionError: the task fails, the tasks after it
\* do not run, nothing is returned; the connection is dropped uncommitted.
DagFail(rn, step) ==
    [rn EXCEPT !.pc = "done", !.term = "failed", !.raised = TRUE, !.err = step,
               !.tx = IF rn.tx = "none" THEN "none" ELSE "closed",
               !.writes = EmptyTables]

Fail(rn, step) == IF rn.impl = "cli" THEN CliFail(rn, step) ELSE DagFail(rn, step)

\* check_date_exists failed: DataInjectionError, never "not exists".
CheckErrorAsAbsent(rn) == [rn EXCEPT !.pc = "extract", !.exists = FALSE, !.err = "check"]
AfterCheckError(rn) == Fail(rn, "check")

\* start_workflow: `if self.check_date_exists(date): return False`.
CliNeverSkipsExisting(exists) == FALSE
CliSkipsExisting(exists) == exists

\* extract_data_from_minio (dag): `if date_exists: return None`.
DagSkipsExtraction(date_exists) == date_exists

\* start_workflow: `if df.empty: return False`.
CliNeverSkipsEmpty(df) == FALSE
CliSkipsEmpty(df) == Len(df) = 0

\* extract_data_from_minio (dag): `if df_filtered.empty: return None`.
DagExtractResult(df) == IF Len(df) = 0 THEN NoneJson ELSE SomeJson(df)

(***************************************************************************)
(* Step 2: the duplicate check. It reads the committed sales through a     *)
(* connection of its own.                                                  *)
(***************************************************************************)
Check(r) ==
    /\ run[r].pc = "check"
    /\ \E outcome \in {"ok", "error"} :
         LET rn == [run[r] EXCEPT !.queries = @ + 1]
             exists == SaleDateExists(store.sale, FormatDate(rn.date))
         IN  IF outcome = "error"
             THEN Set(r, AfterCheckError(rn))
             ELSE IF rn.impl = "cli" /\ CliSkipsExisting(exists)
             THEN Set(r, [rn EXCEPT !.pc = "done", !.exists = exists,
                                    !.term = "skipped-existing", !.ret = "False"])
             ELSE Set(r, [rn EXCEPT !.pc = "extract", !.exists = exists])
    /\ UNCHANGED <<object, store>>

(***************************************************************************)
(* Step 3: fetch the object, filter on the date, drop duplicate lines.     *)
(***************************************************************************)
ExtractSkipped(r) ==
    /\ run[r].pc = "extract"
    /\ run[r].impl = "dag"
    /\ DagSkipsExtraction(run[r].exists)
    /\ Set(r, [run[r] EXCEPT !.pc = "load", !.data_json = NoneJson,
                             !.term = "skipped-existing"])
    /\ UNCHANGED <<object, store>>

Extract(r) ==
    /\ run[r].pc = "extract"
    /\ run[r].impl = "dag" => ~ DagSkipsExtraction(run[r].exists)
    /\ \E outcome \in {"ok", "error"} :
         LET rn == [run[r] EXCEPT !.fetches = @ + 1]
             df == ExtractFrame(object, rn.date)
         IN  IF outcome = "error"
             THEN Set(r, Fail(rn, "extract"))
             ELSE IF rn.impl = "cli"
             THEN IF CliSkipsEmpty(df)
                  THEN Set(r, [rn EXCEPT !.pc = "done", !.term = "skipped-no-data",
                                         !.ret = "False"])
                  ELSE Set(r, [rn EXCEPT !.pc = "load", !.df = df])
             ELSE Set(r, [rn EXCEPT !.pc = "load", !.data_json = DagExtractResult(df),
                                    !.term = IF DagExtractResult(df).none
                                             THEN "skipped-no-data" ELSE @])
    /\ UNCHANGED <<object, store>>

(***************************************************************************)
(* Step 4: the load.                                                       *)
(***************************************************************************)
\* load_data_to_postgres (dag): `if data_json is None: return {skipped}`.
LoadSkipped(r) ==
    /\ run[r].pc = "load"
    /\ run[r].impl = "dag"
    /\ run[r].data_json.none
    /\ Set(r, [run[r] EXCEPT !.pc = "notify", !.ret = "skipped", !.rows_inserted = 0])
    /\ UNCHANGED <<object, store>>

\* psycopg.connect / pg_hook.get_conn: the loader's connection and cursor.
Connect(r) ==
    /\ run[r].pc = "load"
    /\ run[r].impl = "dag" => ~ run[r].data_json.none
    /\ \E outcome \in {"ok", "error"} :
         LET rn == run[r]
             df == IF rn.impl = "dag" THEN ReadJson(rn.data_json.records) ELSE rn.df
         IN  IF outcome = "error"
             THEN Set(r, Fail([rn EXCEPT !.df = df], "load"))
             ELSE Set(r, [rn EXCEPT !.pc = "rows", !.df = df, !.i = 1, !.k = 1,
                                    !.inserted_count = 0, !.tx = "open",
                                    !.opened = @ + 1])
    /\ UNCHANGED <<object, store>>

AtStmt(rn) == rn.pc = "rows" /\ rn.i <= Len(rn.df)

\* The INSERT the run is about to issue.
CurTable(rn) == StmtOrder[rn.k]
CurValues(r, rn) == Values(CurTable(rn), rn.df[rn.i].row, <<r, rn.df[rn.i].idx>>)

\* What the statement sees: the committed rows and the transaction's own.
Visible(rn, t) == store[t] \cup rn.writes[t]

\* What cur.execute does, lock waits aside: an error raised while the
\* parameters are built comes first; a failed transaction refuses every
\* statement; then the server judges the values.
BaseOutcome(rn) ==
    LET fault == rn.df[rn.i].row.fault
    IN  IF fault.at = rn.k /\ fault.kind \in {"adapt", "other"} THEN fault.kind
        ELSE IF rn.tx = "failed" THEN "db"
        ELSE IF fault.at = rn.k /\ fault.kind = "db" THEN "db"
        ELSE "ok"

\* Run r's statement waits for run q: q holds an uncommitted row with the key.
Waiting(r, q) ==
    /\ AtStmt(run[r])
    /\ BaseOutcome(run[r]) = "ok"
    /\ run[q].tx = "open"
    /\ LET t == CurTable(run[r])
           rec == CurValues(r, run[r])
       IN  /\ ~ \E old \in Visible(run[r], t) : Conflicts(t, old, rec)
           /\ \E old \in run[q].writes[t] : Conflicts(t, old, rec)

\* Two runs wait for each other: the server ends the wait of one with an error.
Deadlocked(r) == \E q \in Other(r) : Waiting(r, q) /\ Waiting(q, r)

\* The per-line handler: `except psycopg.Error` (cli), `except Exception` (dag).
PerRowCatches(impl, kind) == IF impl = "cli" THEN kind \in {"db", "adapt"} ELSE TRUE

\* One INSERT executes.
StmtOk(r) ==
    /\ AtStmt(run[r])
    /\ BaseOutcome(run[r]) = "ok"
    /\ \A q \in Other(r) : ~ Waiting(r, q)
    /\ LET rn == run[r]
           t == CurTable(rn)
           added == InsertOnConflictDoNothing(t, Visible(rn, t), CurValues(r, rn))
           wr == [rn.writes EXCEPT ![t] = @ \cup added]
       IN  IF rn.k < Len(StmtOrder)
           THEN Set(r, [rn EXCEPT !.writes = wr, !.stmts = @ + 1, !.k = @ + 1])
           ELSE Set(r, [rn EXCEPT !.writes = wr, !.stmts = @ + 1, !.k = 1, !.i = @ + 1,
                                  !.inserted_count = @ + 1,
                                  !.completed = @ \cup {rn.df[rn.i].idx}])
    /\ UNCHANGED <<object, store>>

\* One INSERT raises; the handler logs and continues with the next line, or
\* the exception leaves the loader.
StmtError(r) ==
    /\ AtStmt(run[r])
    /\ BaseOutcome(run[r]) # "ok" \/ Deadlocked(r)
    /\ LET rn == run[r]
           kind == IF BaseOutcome(rn) # "ok" THEN BaseOutcome(rn) ELSE "db"
           sent == IF kind = "db" THEN 1 ELSE 0
       IN  IF PerRowCatches(rn.impl, kind)
           THEN Set(r, [rn EXCEPT !.i = @ + 1, !.k = 1, !.stmts = @ + sent,
                                  !.tx = IF kind = "db" THEN "failed" ELSE @,
                                  !.writes = IF kind = "db" THEN EmptyTables ELSE @])
           ELSE Set(r, Fail([rn EXCEPT !.stmts = @ + sent], "load"))
    /\ UNCHANGED <<object, store>>

\* COMMIT: the pending rows become visible to all; a failed transaction is
\* rolled back instead.
CommitDropsWrites(tables, writes, tx) == tables
CommitTables(tables, writes, tx) ==
    IF tx = "open" THEN [t \in Tables |-> tables[t] \cup writes[t]] ELSE tables

\* What the loader hands back once the commit went through.
LoadResult(rn) ==
    IF rn.impl = "cli"
    THEN [rn EXCEPT !.pc = "done", !.term = "completed", !.ret = "True",
                    !.logged = Len(rn.df)]
    ELSE [rn EXCEPT !.pc = "notify", !.term = "completed", !.ret = "success",
                    !.rows_inserted = rn.inserted_count, !.logged = rn.inserted_count]

\* conn.commit() stands after the for loop: it runs once the loop is over.
CommitsAnyTime(rn) == TRUE
AllRowsAttempted(rn) == rn.i > Len(rn.df)

Commit(r) ==
    /\ run[r].pc = "rows"
    /\ AllRowsAttempted(run[r])
    /\ \E outcome \in {"ok", "error"} :
         LET rn == run[r]
         IN  IF outcome = "error"
             THEN /\ Set(r, Fail(rn, "load"))
                  /\ UNCHANGED store
             ELSE /\ store' = CommitTables(store, rn.writes, rn.tx)
                  /\ Set(r, LoadResult([rn EXCEPT !.tx = "closed", !.writes = EmptyTables,
                                                  !.commits = @ + 1]))
    /\ UNCHANGED object

\* Step 5 (dag): send_notification logs the result.
Notify(r) ==
    /\ run[r].pc = "notify"
    /\ Set(r, [run[r] EXCEPT !.pc = "done"])
    /\ UNCHANGED <<object, store>>

Next ==
    \E r \in Runs :
        \/ Start(r)
        \/ Validate(r)
        \/ Check(r)
        \/ ExtractSkipped(r)
        \/ Extract(r)
        \/ LoadSkipped(r)
        \/ Connect(r)
        \/ StmtOk(r)
        \/ StmtError(r)
        \/ Commit(r)
        \/ Notify(r)

Spec == Init /\ [][Next]_vars

(***************************************************************************)
(* The two pure steps on their own: validate_date over date strings of     *)
(* every shape, and the extraction (filter on the formatted date, drop     *)
(* duplicates) of an accepted date over objects that mix dates.            *)
(***************************************************************************)
YearParts ==
    { <<"2", "0", "2", "3">>, <<"2", "0", "2", "4">>, <<"1", "9", "0", "0">>,
      <<"2", "0", "0", "0">>, <<"0", "0", "0", "0">>, <<"0", "9", "9", "9">>,
      <<"FF12", "FF10", "FF12", "FF13">>, <<"00B2", "0", "2", "3">>,
      <<"2", "0", "2", "x">> }

MonthParts ==
    { <<"0", "0">>, <<"0", "2">>, <<"0", "6">>, <<"1", "2">>, <<"1", "3">>,
      <<"FF10", "FF16">> }

DayParts ==
    { <<"0", "0">>, <<"0", "1">>, <<"1", "5">>, <<"2", "8">>, <<"2", "9">>,
      <<"3", "0">>, <<"3", "1">>, <<"3", "2">>, <<"1", "FF15">>, <<"0", "FF15">>,
      <<"-", "1">> }

ValidateInputs ==
    {y \o m \o d : y \in YearParts, m \in MonthParts, d \in DayParts}
        \cup {<<>>, SubSeq(Date1, 1, 7), Date1 \o <<"0">>}

PureCatalog ==
    { SaleRecord(1, "a", 1, "x", 1, SaleDate1, 1, NoFault),
      SaleRecord(1, "b", 2, "y", 2, SaleDate1, 2, NoFault),
      SaleRecord(2, "a", 2, "x", 3, SaleDate2, 3, NoFault),
      SaleRecord(2, "b", 1, "y", 7, SaleDateOld, 7, NoFault) }

PureObjects == UNION {[1..n -> PureCatalog] : n \in 0..MaxRows}

InitPure ==
    /\ object \in PureObjects
    /\ store = EmptyTables
    /\ run = [r \in Runs |-> IdleRun]

StartPure(r) ==
    /\ r = 1
    /\ run[r].pc = "idle"
    /\ \E impl \in Impls, date \in ValidateInputs :
         Set(r, [run[r] EXCEPT !.pc = "validate", !.impl = impl, !.date = date])
    /\ UNCHANGED <<object, store>>

\* extract_data_from_minio on an accepted date, the fetch succeeding.
ExtractOnly(r) ==
    /\ run[r].pc = "check"
    /\ LET df == ExtractFrame(object, run[r].date)
       IN  Set(r, [run[r] EXCEPT !.pc = "done", !.fetches = @ + 1, !.df = df,
                                 !.data_json = IF run[r].impl = "dag"
                                               THEN DagExtractResult(df) ELSE @])
    /\ UNCHANGED <<object, store>>

NextPure == \E r \in Runs : StartPure(r) \/ Validate(r) \/ ExtractOnly(r)

SpecPure == InitPure /\ [][NextPure]_vars

(***************************************************************************)
(* The two workflows side by side: start_workflow runs to its end, then    *)
(* fashion_store_etl runs for the same date over the same object, from the *)
(* tables start_workflow had found.                                        *)
(***************************************************************************)
LoadedLine == SaleRecord(1, "a", 1, "x", 9, SaleDate1, 9, NoFault)
Preloaded == [t \in Tables |-> {Values(t, LoadedLine, <<0, 0>>)}]
EqStores == {EmptyTables, Preloaded}

InitEq ==
    /\ object \in CsvObjects
    /\ store \in EqStores
    /\ run = [r \in Runs |-> IdleRun]

StartFirst ==
    /\ run[1].pc = "idle"
    /\ \E date \in TargetDates :
         Set(1, [run[1] EXCEPT !.pc = "validate", !.impl = "cli", !.date = date,
                               !.found = store])
    /\ UNCHANGED <<object, store>>

StartSecond ==
    /\ run[1].pc = "done"
    /\ run[2].pc = "idle"
    /\ run' = [run EXCEPT ![1].left = store,
                          ![2] = [@ EXCEPT !.pc = "validate", !.impl = "dag",
                                           !.date = run[1].date,
                                           !.found = run[1].found]]
    /\ store' = run[1].found
    /\ UNCHANGED object

NextEq ==
    \/ StartFirst
    \/ StartSecond
    \/ \E r \in Runs :
        \/ Validate(r)
        \/ Check(r)
        \/ ExtractSkipped(r)
        \/ Extract(r)
        \/ LoadSkipped(r)
        \/ Connect(r)
        \/ StmtOk(r)
        \/ StmtError(r)
        \/ Commit(r)
        \/ Notify(r)

SpecEq == InitEq /\ [][NextEq]_vars

(***************************************************************************)
(* Properties.                                                             *)
(***************************************************************************)
Done(r) == run[r].pc = "done"

\* The insertion count of a run: the result's rows_inserted (dag), the
\* loader's inserted_count (cli, which returns no count).
RowsInserted(rn) == IF rn.impl = "dag" THEN rn.rows_inserted ELSE rn.inserted_count

FaultFree(df) == \A e \in Range(df) : e.row.fault = NoFault

\* C1: idempotence. When the workflow has run twice for the same date and the
\* same object (run 1 completed a load of fault-free lines, run 2 ended
\* without failing), the second run reports rows_inserted = 0, whether its
\* duplicate check short-circuited it or the check raced and every line hit
\* conflict-skip.
C1_SecondRunInsertsNothing ==
    ( /\ Done(1) /\ Done(2)
      /\ run[1].date = run[2].date
      /\ run[1].term = "completed"
      /\ FaultFree(run[1].df)
      /\ run[2].term \in {"completed", "skipped-existing", "skipped-no-data"} )
    => RowsInserted(run[2]) = 0

\* The lines of a frame that carry a storage-level fault (a psycopg.Error).
StorageFaulty(df) == {n \in DOMAIN df : df[n].row.fault.kind \in {"db", "adapt"}}

Present(t, key) == \E rec \in store[t] : KeyOf(t, rec) = key

\* C2: a batch of N lines of which exactly one fails its insert sequence with
\* a storage-level error, all others being faultless: the loader returns
\* rows_inserted = N-1 and after the commit the sale and the line item of each
\* of the other N-1 lines are in the store.
C2_OneFailingRow ==
    \A r \in Runs :
        ( /\ Done(r)
          /\ run[r].term = "completed"
          /\ Cardinality(StorageFaulty(run[r].df)) = 1
          /\ \A n \in DOMAIN run[r].df \ StorageFaulty(run[r].df) :
                 run[r].df[n].row.fault = NoFault )
        => /\ run[r].inserted_count = Len(run[r].df) - 1
           /\ \A n \in DOMAIN run[r].df \ StorageFaulty(run[r].df) :
                  /\ Present("sale", run[r].df[n].row.sale_id)
                  /\ Present("sale_product", run[r].df[n].row.item_id)

\* C3: row atomicity. Every row of the committed store was created by a line
\* that completed all four of its statements: a line whose sequence failed
\* leaves no client, product or sale behind.
C3_RowAtomicity ==
    \A t \in Tables : \A rec \in store[t] :
        rec.by[2] \in run[rec.by[1]].completed

\* C4: when the duplicate check returned true, the run never fetches the
\* object, never opens the loader's connection, sends no INSERT, and ends in
\* skipped-existing.
C4_ExistingDateSkips ==
    \A r \in Runs :
        (run[r].pc \notin {"idle", "check"} /\ run[r].exists)
        => /\ run[r].fetches = 0
           /\ run[r].opened = 0
           /\ run[r].stmts = 0
           /\ Done(r) => run[r].term = "skipped-existing"

C4_Witness ==
    \E r \in Runs :
        /\ Done(r) /\ run[r].exists /\ run[r].impl = "dag"
        /\ run[r].term = "skipped-existing" /\ run[r].ret = "skipped"

\* C5: under every interleaving of the two runs no table holds two rows with
\* the same primary key.
C5_NoDuplicateKeys ==
    \A t \in Tables : \A x, y \in store[t] :
        KeyOf(t, x) = KeyOf(t, y) => x = y

\* Both runs passed the duplicate check before either committed: run 2 found
\* no sale for the date, yet completed against a store whose sales for that
\* date are all run 1's, every one of its statements conflict-skipped.
C5_Witness ==
    /\ Done(1) /\ Done(2)
    /\ run[1].date = run[2].date
    /\ run[1].term = "completed" /\ run[2].term = "completed"
    /\ ~ run[2].exists
    /\ run[2].stmts = 4 * Len(run[2].df)
    /\ store.sale # {}
    /\ \A s \in store.sale : s.by[1] = 1 /\ s.sale_date = FormatDate(run[2].date)

\* Every row of table t there is: committed or pending in a transaction.
Known(t) == store[t] \cup UNION {run[r].writes[t] : r \in Runs}

\* C6: create-once. A client (product) row, once inserted, is the only row
\* of its key from then on: no step replaces it or adds another row with its
\* customer_id (product_id), whatever attributes later lines carry.
C6_CreateOnce ==
    [][\A t \in {"client", "product"} :
          \A old \in Known(t) : \A new \in Known(t)' :
              KeyOf(t, new) = KeyOf(t, old) => new = old]_vars

\* A committed run completed a line whose client attributes differ from the
\* stored client of the same customer_id.
C6_Witness ==
    \E r \in Runs : \E e \in Range(run[r].df) :
        /\ Done(r) /\ run[r].term = "completed"
        /\ e.idx \in run[r].completed
        /\ \E c \in store.client :
               c.customer_id = e.row.customer_id /\ c.attr # e.row.client

\* C7: insertion order. When a run executes the INSERT into sale, the
\* customer_id is among the clients it sees; when it executes the INSERT into
\* sale_product, the sale_id and product_id are among the sales and products
\* it sees; and the committed store always satisfies the three foreign keys.
C7_ReferentialOrder ==
    /\ \A s \in store.sale : Present("client", s.customer_id)
    /\ \A sp \in store.sale_product :
           Present("sale", sp.sale_id) /\ Present("product", sp.product_id)
    /\ \A r \in Runs :
           (AtStmt(run[r]) /\ BaseOutcome(run[r]) = "ok") =>
               LET row == run[r].df[run[r].i].row
                   sees(t, key) == \E rec \in Visible(run[r], t) : KeyOf(t, rec) = key
               IN  /\ CurTable(run[r]) = "sale" => sees("client", row.customer_id)
                   /\ CurTable(run[r]) = "sale_product" =>
                          sees("sale", row.sale_id) /\ sees("product", row.product_id)

C7_Witness ==
    /\ store.sale_product # {}
    /\ \E r \in Runs :
           /\ AtStmt(run[r]) /\ BaseOutcome(run[r]) = "ok"
           /\ CurTable(run[r]) = "sale_product"

C9_CheckFailureIsFatal ==
    \A r \in Runs :
        run[r].err = "check" =>
            /\ Done(r) /\ run[r].term = "failed"
            /\ ~ run[r].exists
            /\ run[r].fetches = 0 /\ run[r].opened = 0 /\ run[r].stmts = 0

\* The check of a run failed while the store already held sales of another run.
C9_Witness ==
    \E r \in Runs :
        /\ run[r].err = "check" /\ Done(r)
        /\ store.sale # {}

\* C10: a run that found no sale for its date and fetched an object with no
\* line for that date ends in skipped-no-data without opening the loader's
\* connection, sending an INSERT or committing.
C10_NoDataNoWrite ==
    \A r \in Runs :
        ( /\ run[r].fetches = 1 /\ run[r].err = "none"
          /\ Len(ExtractFrame(object, run[r].date)) = 0 )
        => /\ run[r].opened = 0 /\ run[r].stmts = 0 /\ run[r].commits = 0
           /\ run[r].tx = "none"
           /\ Done(r) => run[r].term = "skipped-no-data"

\* Both implementations ended in skipped-no-data on an object that has lines,
\* all of another date.
C10_Witness ==
    /\ Len(object) > 0
    /\ \E r, q \in Runs :
           /\ run[r].impl = "cli" /\ run[q].impl = "dag"
           /\ Done(r) /\ Done(q)
           /\ run[r].term = "skipped-no-data" /\ run[q].term = "skipped-no-data"
           /\ run[r].fetches = 1 /\ run[q].fetches = 1

(***************************************************************************)
(* The calendar, as the specification words it: a date string is exactly   *)
(* 8 ASCII digits YYYYMMDD naming a day that exists (years 0001 to 9999).  *)
(***************************************************************************)
IsCalendarDate(date) ==
    /\ Len(date) = 8
    /\ \A n \in 1..8 : IsAsciiDigit(date[n])
    /\ Year(date) >= 1
    /\ Month(date) \in 1..12
    /\ Day(date) \in 1..DaysInMonth(Year(date), Month(date))

\* C11: a date string that is no calendar date ends the run in rejected
\* before any I/O: no existence query, no fetch, no loader connection, no
\* INSERT and no COMMIT is issued by that run.
C11_RejectedBeforeIO ==
    \A r \in Runs :
        (run[r].pc \notin {"idle", "validate"} /\ ~ IsCalendarDate(run[r].date))
        => /\ Done(r) /\ run[r].term = "rejected"
           /\ run[r].queries = 0 /\ run[r].fetches = 0 /\ run[r].opened = 0
           /\ run[r].stmts = 0 /\ run[r].commits = 0

\* Both implementations rejected the 30th of February.
C11_Witness ==
    \E r, q \in Runs :
        /\ run[r].impl = "cli" /\ run[q].impl = "dag"
        /\ run[r].term = "rejected" /\ run[q].term = "rejected"
        /\ run[r].date = BadDate /\ run[q].date = BadDate

\* The count a completed run shows its caller: the result's rows_inserted
\* (dag), the count of the closing log line (cli, whose return is a bool).
Surfaced(rn) == IF rn.impl = "dag" THEN rn.rows_inserted ELSE rn.logged

\* C12: on a run that reaches completed, the insertion count surfaced to the
\* caller is the number of input lines that completed all four inserts,
\* whatever the number of failing lines.
C12_SurfacedCount ==
    \A r \in Runs :
        (Done(r) /\ run[r].term = "completed")
        => Surfaced(run[r]) = Cardinality(run[r].completed)

\* The YYYY-MM-DD writing of a calendar date YYYYMMDD.
IsoDate(date) == SubSeq(date, 1, 4) \o <<"-">> \o SubSeq(date, 5, 6) \o <<"-">> \o SubSeq(date, 7, 8)

\* The object holds n >= 1 lines, all dated `date`, none of which fails, with
\* pairwise distinct sale_id and item_id.
CleanBatch(date) ==
    /\ Len(object) >= 1
    /\ \A n \in DOMAIN object :
          /\ object[n].sale_date = IsoDate(date)
          /\ object[n].fault = NoFault
    /\ \A m, n \in DOMAIN object :
          m # n => /\ object[m].sale_id # object[n].sale_id
                   /\ object[m].item_id # object[n].item_id

\* C13: no sale existed for the target date when the run checked, the object
\* is a clean batch of n lines for that date and no collaborator failed: the
\* run ends completed with rows_inserted = n, and the n sales and n line
\* items are in the store.
C13_CleanBatchLoaded ==
    \A r \in Runs :
        ( /\ Done(r)
          /\ IsCalendarDate(run[r].date)
          /\ run[r].err = "none"
          /\ ~ run[r].exists
          /\ CleanBatch(run[r].date) )
        => /\ run[r].term = "completed"
           /\ RowsInserted(run[r]) = Len(object)
           /\ Surfaced(run[r]) = Len(object)
           /\ \A n \in DOMAIN object :
                 /\ Present("sale", object[n].sale_id)
                 /\ Present("sale_product", object[n].item_id)

\* Each implementation completed a clean batch of MaxRows lines on an empty
\* store.
C13_Witness ==
    \E r \in Runs :
        /\ Done(r) /\ run[r].term = "completed" /\ ~ run[r].exists
        /\ CleanBatch(run[r].date)
        /\ Len(object) >= 2
        /\ \A q \in Other(r) : run[q].pc = "idle"
        /\ Cardinality(store.sale) = Len(object)

\* The three outcome classes of a run that passed validation.
OutcomeClass(rn) ==
    IF rn.term \in {"skipped-existing", "skipped-no-data"} THEN "skipped" ELSE rn.term

\* What the caller of the workflow gets: the returned value, or an exception.
Returned(rn) == <<rn.ret, rn.raised>>

\* C14: the outcomes returned for a completed, a skipped and a failed run of
\* the same workflow are pairwise distinguishable by the caller.
C14_OutcomesDistinguishable ==
    \A r, q \in Runs :
        ( /\ Done(r) /\ Done(q)
          /\ run[r].impl = run[q].impl
          /\ {OutcomeClass(run[r]), OutcomeClass(run[q])} \subseteq
                 {"completed", "skipped", "failed"}
          /\ OutcomeClass(run[r]) # OutcomeClass(run[q]) )
        => Returned(run[r]) # Returned(run[q])

\* C15: validate accepts a string if and only if it is 8 ASCII digits naming
\* a calendar date; every other string is refused (and the refusal is a
\* result, not an exception, of validate).
C15_ValidateIffCalendarDate ==
    \A r \in Runs :
        run[r].pc \notin {"idle", "validate"}
        => (run[r].term # "rejected" <=> IsCalendarDate(run[r].date))

\* The lines of the object the extraction owes for a date: those dated its
\* YYYY-MM-DD form, less the lines equal in all fields to an earlier one.
Owed(date) ==
    {n \in DOMAIN object :
        /\ object[n].sale_date = IsoDate(date)
        /\ \A m \in 1..(n - 1) : object[m] # object[n]}

\* C16: for a calendar date, the extraction returns exactly the lines dated
\* the YYYY-MM-DD form of the date, identical lines collapsed to one, and no
\* line of another date.
C16_ExtractExact ==
    \A r \in Runs :
        (Done(r) /\ run[r].term # "rejected" /\ IsCalendarDate(run[r].date))
        => /\ {e.idx + 1 : e \in Range(run[r].df)} = Owed(run[r].date)
           /\ Len(run[r].df) = Cardinality(Owed(run[r].date))
           /\ \A e \in Range(run[r].df) : e.row = object[e.idx + 1]

\* C17: a run that reaches the load holds one transaction for the whole
\* batch: it is open exactly while the run is in the loop or at the commit,
\* the commit is issued at most once and only when every line of the frame
\* has been attempted, the transaction is released when the run ends, and no
\* second one is opened.
C17_OneTransaction ==
    \A r \in Runs :
        /\ run[r].opened <= 1
        /\ run[r].commits <= 1
        /\ run[r].commits = 1
              => /\ run[r].opened = 1
                 /\ run[r].i = Len(run[r].df) + 1
                 /\ run[r].tx = "closed"
        /\ run[r].tx \in {"open", "failed"} <=> run[r].pc = "rows"
        /\ run[r].pc = "rows" => run[r].opened = 1 /\ run[r].commits = 0
        /\ (Done(r) /\ run[r].opened = 1) => run[r].tx = "closed"

\* A run committed a batch of two lines of which one was abandoned.
C17_Witness ==
    \E r \in Runs :
        /\ Done(r) /\ run[r].commits = 1
        /\ Len(run[r].df) = 2
        /\ Cardinality(run[r].completed) = 1
        /\ store.sale # {}

\* Run r committed at least one sale of its date and abandoned a line of its
\* frame.
PartlyLoaded(r) ==
    /\ run[r].commits = 1
    /\ \E s \in store.sale : s.by[1] = r /\ s.sale_date = IsoDate(run[r].date)
    /\ \E e \in Range(run[r].df) : e.idx \notin run[r].completed

\* C18: once a run has committed a sale of date D while abandoning other
\* lines of D, the existence query of every later run for D answers true
\* (unless the query itself fails, which ends that run failed), and a run
\* whose query answered true fetches nothing, sends no INSERT, adds nothing
\* to the store and ends skipped-existing: re-running the workflow for D
\* never loads the abandoned lines.
C18_AbandonedStayAbandoned ==
    [][ \A q \in Runs :
          /\ ( /\ run[q].pc = "check" /\ run'[q].pc # "check"
               /\ \E r \in Other(q) : PartlyLoaded(r) /\ run[r].date = run[q].date )
             => run'[q].exists \/ run'[q].err = "check"
          /\ run'[q].exists
             => /\ run'[q].fetches = 0 /\ run'[q].stmts = 0 /\ run'[q].opened = 0
                /\ run'[q].completed = {}
                /\ \A t \in Tables : \A rec \in store'[t] : rec.by[1] # q
                /\ run'[q].pc = "done" => run'[q].term = "skipped-existing" ]_vars

\* Run 1 loaded one line of the date and abandoned another; run 2, for the
\* same date, was skipped, and the abandoned sale is not in the store.
C18_Witness ==
    /\ PartlyLoaded(1)
    /\ Done(2) /\ run[2].date = run[1].date
    /\ run[2].exists /\ run[2].term = "skipped-existing"
    /\ \E e \in Range(run[1].df) :
          e.idx \notin run[1].completed /\ ~ Present("sale", e.row.sale_id)

\* C19: every sale a run adds, pending or committed, is dated the run's
\* target date; the store starting empty, the sale dates in the store are
\* among the target dates of the runs executed.
C19_OnlyTargetDate ==
    /\ \A r \in Runs : \A s \in run[r].writes.sale : s.sale_date = IsoDate(run[r].date)
    /\ \A s \in store.sale :
          /\ s.by[1] \in Runs
          /\ s.sale_date = IsoDate(run[s.by[1]].date)
    /\ {s.sale_date : s \in store.sale}
          \subseteq {IsoDate(run[r].date) : r \in {q \in Runs : run[q].commits = 1}}

\* A run loaded the lines of its date from an object that also holds a line
\* of another date.
C19_Witness ==
    \E r \in Runs :
        /\ Done(r) /\ run[r].term = "completed"
        /\ \E s \in store.sale : s.by[1] = r
        /\ \E n \in DOMAIN object :
              /\ object[n].sale_date # IsoDate(run[r].date)
              /\ object[n].fault = NoFault

\* A collaborator failed under the run: the existence query, the fetch, the
\* loader's connection or its COMMIT (a failure that is not a line's).
EnvFailure(rn) ==
    \/ rn.err \in {"check", "extract"}
    \/ rn.err = "load" /\ (rn.opened = 0 \/ rn.i > Len(rn.df))

\* The contents of a table, creator tags aside.
Contents(rows) == {Columns(rec) : rec \in rows}

\* C20: started from the same tables with the same object, date and per-line
\* failures, and no collaborator failing, start_workflow and fashion_store_etl
\* leave the same contents in the four tables and end in the same outcome
\* class.
C20_WorkflowsEquivalent ==
    ( /\ Done(1) /\ Done(2)
      /\ run[1].impl = "cli" /\ run[2].impl = "dag"
      /\ ~ EnvFailure(run[1]) /\ ~ EnvFailure(run[2]) )
    => /\ OutcomeClass(run[1]) = OutcomeClass(run[2])
       /\ \A t \in Tables : Contents(run[1].left[t]) = Contents(store[t])

====
